---- MODULE Spec2Model ----
(***************************************************************************)
(* A model of minipiano.c: the transform kernel of fft.c (dft, fft and     *)
(* frames_as_frequencies) and the parts of minipiano.c that feed it (the   *)
(* tone generators, the key handler, data_callback and the render loop).   *)
(*                                                                         *)
(* Numbers.  The C code works on float.  The model keeps every value       *)
(* exact:                                                                  *)
(*   - a sample (an element of frames, output, even, odd) is an integer;   *)
(*   - a spectrum value (an element of frequencies) is a finite integer    *)
(*     combination of cosines  SUM c_k * cos(2*pi*k),  k a fraction in     *)
(*     [0, 1/4) in lowest terms, held as a function from <<p, q>> to the   *)
(*     non-zero coefficient c.  For power-of-two denominators these        *)
(*     cosines are linearly independent over the rationals, so two values  *)
(*     are equal exactly when their functions are equal;                   *)
(*   - a complex value is a record [re, im] of two such combinations.      *)
(* Float rounding is therefore not modelled; what is modelled is which     *)
(* values are added, multiplied, narrowed and stored where.                *)
(***************************************************************************)
EXTENDS Integers, Sequences, FiniteSets, TLC

\* ------------------------------------------------------------------ bounds

\* Largest length (n_frames, window) handed to dft and fft in the transform runs.
MaxWindow == 8
\* Transform calls per run, one after another on the same output buffer.
MaxCalls == 2

\* Sample values the transform runs draw their input from.
Samples(len) == IF len <= 4 THEN {-1, 0, 1} ELSE {0, 1}

\* frames and frequencies hold 1 << FrameShift slots (1 << 7 in the source).
FrameShift == 2

FRAME_COUNT_MAX == 2 ^ FrameShift

\* data_callback is asked for 0 .. FRAME_COUNT_MAX + ExtraFrames frames.
ExtraFrames == 1

FrameCounts == 0 .. (FRAME_COUNT_MAX + ExtraFrames)

\* Invocations of data_callback per run.
MaxCallbacks == 2

\* Frames the main loop renders per run.
MaxRenders == 2

\* The amplitude the 'o' key stops raising at, in tenths.
MaxAmplitude == 11

\* amplitude is held in tenths: 0.2 is 2, and 'o' and 'p' move it by 1.
AMPLITUDE_INIT == 2

\* phase is held in quarter cycles: the phase c of the source is Ph(c).
Ph(c) == 4 * c

\* frequency and c_frequency are held as frequency / sample_rate in the unit of
\* phase, a quarter cycle per sample: the model's device runs at four samples
\* per cycle of the 440 Hz of c_frequency.
C_FREQUENCY_INIT == 1

\* A sample is held in units of 1 / FullScale: amplitude * phase, an amplitude
\* in tenths times a phase in quarters.  The float 1.0 is FullScale.
FullScale == 10 * Ph(1)

\* pow(2, k / 12.0) in thousandths, k = 0 .. 12.
Pow2Twelfth(k) ==
  CASE k = 0 -> 1000 [] k = 1 -> 1059 [] k = 2 -> 1122 [] k = 3 -> 1189
    [] k = 4 -> 1260 [] k = 5 -> 1335 [] k = 6 -> 1414 [] k = 7 -> 1498
    [] k = 8 -> 1587 [] k = 9 -> 1682 [] k = 10 -> 1782 [] k = 11 -> 1888
    [] k = 12 -> 2000

\* c * pow(2, k / 12.0) and c / pow(2, 1 / 12.0), rounded to the unit.
FreqTimes(c, k) == (c * Pow2Twelfth(k) + 500) \div 1000

FreqOver(c, k) == (c * 1000 + Pow2Twelfth(k) \div 2) \div Pow2Twelfth(k)

\* sin(phase * 2 * MA_PI) for a phase in quarter cycles.
SinQ(ph) == CASE ph % 4 = 0 -> 0 [] ph % 4 = 1 -> 1 [] ph % 4 = 2 -> 0 [] ph % 4 = 3 -> -1

\* ------------------------------------------------------------------- state

VARIABLES
  frames,       \* float frames[]: the audio samples, the input of a transform
  frequencies,  \* float frequencies[]: the output buffer of a transform
  \* one transform call after another on the same buffers (Spec)
  size,         \* the length handed to the current transform call
  op,           \* the transform last called: "none", "dft" or "fft"
  kpc,          \* "idle" before the first call, "fft" inside fft, "done" after a call
  stack,        \* the frames of the nested fft calls, the innermost last
  written,      \* the slots of frequencies the current call has assigned
  prior,        \* frequencies as the current call found it
  calls,        \* transform calls made so far
  maxDepth,     \* the deepest nesting of fft calls the current call has reached
  \* minipiano.c
  instrument,   \* "SINE", "SQUARE", "TRIANGLE" or "SAW"
  amplitude,    \* double amplitude, in tenths
  phase,        \* static double phase, in quarter cycles
  increasing,   \* the static bool increasing of triangle
  frequency,    \* double frequency
  c_frequency,  \* static double c_frequency
  output,       \* the device buffer pOutput of the latest data_callback
  prevFrames,   \* frames as the latest data_callback found it
  callbacks,    \* invocations of data_callback so far
  running,      \* FALSE once 'q' has ended the main loop
  \* the audio thread inside data_callback and the main thread inside fft
  cbpc,         \* "idle", or "copy" inside the loop of frames_as_frequencies
  cbi,          \* that loop's i
  cbn,          \* that loop's n_frames
  rpc,          \* "idle", or "split" inside the split loop of fft(frames, ...)
  ri,           \* that loop's i
  evenTop,      \* float even[] of the outermost fft call
  oddTop,       \* float odd[] of the outermost fft call
  renders,      \* frames rendered so far
  complete,     \* the contents completed data_callback invocations have left frames with
  modifiedDuringRead,  \* frames was changed between the first and the last read of a fft call
  tornRead      \* a fft call read samples that no completed data_callback left frames with

kvars == <<size, op, kpc, stack, written, prior, calls, maxDepth>>

avars == <<instrument, amplitude, phase, increasing, frequency, c_frequency,
           output, prevFrames, callbacks, running>>

rvars == <<cbpc, cbi, cbn, rpc, ri, evenTop, oddTop, renders, complete,
           modifiedDuringRead, tornRead>>

vars == <<frames, frequencies, kvars, avars, rvars>>

\* ----------------------------------------------------------- exact numbers

Abs(x) == IF x < 0 THEN -x ELSE x

RECURSIVE Gcd(_, _)
Gcd(a, b) == IF b = 0 THEN a ELSE Gcd(b, a % b)

\* The real number 0.
RZero == [k \in {} |-> 0]

\* The integer c as a real: c * cos(0).
RConst(c) == IF c = 0 THEN RZero ELSE [k \in {<<0, 1>>} |-> c]

RCoef(a, k) == IF k \in DOMAIN a THEN a[k] ELSE 0

RAdd(a, b) ==
  LET D == DOMAIN a \cup DOMAIN b
  IN  [k \in {d \in D : RCoef(a, d) + RCoef(b, d) # 0} |-> RCoef(a, k) + RCoef(b, k)]

RScale(c, a) == IF c = 0 THEN RZero ELSE [k \in DOMAIN a |-> c * a[k]]

RNeg(a) == RScale(-1, a)

RSub(a, b) == RAdd(a, RNeg(b))

\* cos(2*pi*p/q) for integers p >= 0, q >= 1: folded into [0, 1/4) by
\* cos(x) = cos(-x) = -cos(pi - x) and cos(pi/2) = 0, then reduced.
RCos(p, q) ==
  LET r0 == p % q
      r  == IF 2 * r0 > q THEN q - r0 ELSE r0
      sg == IF 4 * r > q THEN -1 ELSE 1
      nu == IF 4 * r > q THEN q - 2 * r ELSE r
      de == IF 4 * r > q THEN 2 * q ELSE q
      g  == Gcd(nu, de)
  IN  IF 4 * r = q THEN RZero
      ELSE [k \in {<<nu \div g, de \div g>>} |-> sg]

\* sin(2*pi*p/q) = cos(2*pi*(p/q - 1/4)).
RSin(p, q) == RCos(Abs(4 * p - q), 4 * q)

\* Complex values.
Cx(re, im) == [re |-> re, im |-> im]

\* A float converted to complex.
CFromReal(a) == Cx(a, RZero)

CAdd(x, y) == Cx(RAdd(x.re, y.re), RAdd(x.im, y.im))

CSub(x, y) == Cx(RSub(x.re, y.re), RSub(x.im, y.im))

\* An integer sample times a complex value.
CScale(c, x) == Cx(RScale(c, x.re), RScale(c, x.im))

\* exp(-2*pi*i*p/q) = cos(2*pi*p/q) - i*sin(2*pi*p/q).
CExp(p, q) == Cx(RCos(p, q), RNeg(RSin(p, q)))

\* C's conversion of a complex value to float: the imaginary part is dropped.
Narrow(x) == x.re

\* ------------------------------------------------------------------ memory

\* A float array of n slots, indexed from 0 as in C.
Idx(len) == 0 .. (len - 1)

\* buf[i] = v.  A store past the end of the array shows as a new index.
Store(buf, i, v) == [j \in DOMAIN buf \cup {i} |-> IF j = i THEN v ELSE buf[j]]

RECURSIVE Log2Floor(_)
Log2Floor(w) == IF w <= 1 THEN 0 ELSE 1 + Log2Floor(w \div 2)

IsPow2(w) == w >= 1 /\ 2 ^ Log2Floor(w) = w

\* ------------------------------------------------------------ fft.c: dft

\* The inner loop of dft, from frame on: out_frequencies[freq] (acc) += ...
\* t = frame / n_frames, so the angle 2*pi*freq*t is 2*pi*(freq*frame)/n_frames.
\* The sum of the float acc and the complex product is complex, and the
\* assignment narrows it to float again.
RECURSIVE DftAccumulate(_, _, _, _, _)
DftAccumulate(in_frames, acc, freq, frame, n_frames) ==
  IF frame >= n_frames THEN acc
  ELSE DftAccumulate(in_frames,
         Narrow(CAdd(CFromReal(acc),
                     CScale(in_frames[frame], CExp(freq * frame, n_frames)))),
         freq, frame + 1, n_frames)

\* The slot after its inner loop had dft not reset it first: the accumulation
\* starts from what the slot held.
DftBinNoReset(in_frames, out_frequencies, freq, n_frames) ==
  DftAccumulate(in_frames, out_frequencies[freq], freq, 0, n_frames)

\* What the slot out_frequencies[freq] holds after out_frequencies[freq] = 0 and
\* its inner loop.
DftBin(in_frames, out_frequencies, freq, n_frames) ==
  DftAccumulate(in_frames, RZero, freq, 0, n_frames)

\* The outer loop of dft, from freq on.
RECURSIVE DftLoop(_, _, _, _)
DftLoop(in_frames, out_frequencies, freq, n_frames) ==
  IF freq >= n_frames THEN out_frequencies
  ELSE DftLoop(in_frames,
         Store(out_frequencies, freq,
               DftBin(in_frames, out_frequencies, freq, n_frames)),
         freq + 1, n_frames)

\* dft(in_frames, out_frequencies, n_frames): the output buffer after the call.
dft(in_frames, out_frequencies, n_frames) ==
  DftLoop(in_frames, out_frequencies, 0, n_frames)

\* The slots dft assigns.
DftWrites(n_frames) == {freq \in 0 .. (n_frames - 1) : TRUE}

\* ------------------------------------------------------------ fft.c: fft

\* The split loop: even[i] = in_frames[i * 2], odd[i] = in_frames[i * 2 + 1].
FftEven(in_frames, window) == [i \in Idx(window \div 2) |-> in_frames[i * 2]]

FftOdd(in_frames, window) == [i \in Idx(window \div 2) |-> in_frames[i * 2 + 1]]

\* twiddle = cexp(-2.0 * I * PI * i / window) * odd[i]
Twiddle(od, i, window) == CScale(od[i], CExp(i, window))

\* The combine loop, from i on.  It reads the arrays even and odd of its own
\* frame (the samples the split loop put there) and writes out_frequencies.
RECURSIVE FftCombineLoop(_, _, _, _, _)
FftCombineLoop(ev, od, out_frequencies, i, window) ==
  IF i >= window \div 2 THEN out_frequencies
  ELSE LET e  == CFromReal(RConst(ev[i]))
           tw == Twiddle(od, i, window)
           o1 == Store(out_frequencies, i, Narrow(CAdd(e, tw)))
           o2 == Store(o1, i + window \div 2, Narrow(CSub(e, tw)))
       IN  FftCombineLoop(ev, od, o2, i + 1, window)

FftCombine(ev, od, out_frequencies, window) ==
  FftCombineLoop(ev, od, out_frequencies, 0, window)

\* The slots the combine loop of a call with this window assigns.
FftCombineWrites(window) ==
  UNION {{i, i + window \div 2} : i \in Idx(window \div 2)}

\* fft(in_frames, out_frequencies, window) as a whole: the output buffer after
\* the call.  Both recursive calls are handed the caller's out_frequencies.
RECURSIVE fft(_, _, _)
fft(in_frames, out_frequencies, window) ==
  IF window <= 1 THEN out_frequencies
  ELSE LET ev == FftEven(in_frames, window)
           od == FftOdd(in_frames, window)
           o1 == fft(ev, out_frequencies, window \div 2)
           o2 == fft(od, o1, window \div 2)
       IN  FftCombine(ev, od, o2, window)

\* The rest of a call fft(_, out_frequencies, window), window > 1, whose split
\* loop has filled ev and od: the two recursive calls and the combine loop.
FftAfterSplit(ev, od, out_frequencies, window) ==
  FftCombine(ev, od,
             fft(od, fft(ev, out_frequencies, window \div 2), window \div 2),
             window)

\* The frame of a call whose base-case test lets window = 1 through to the
\* split loop and the recursive calls.
NewFrameNoBase(in_frames, window) ==
  IF window <= 0
    THEN [pc |-> "return", window |-> window, ev |-> << >>, od |-> << >>]
    ELSE [pc |-> "even", window |-> window,
          ev |-> FftEven(in_frames, window), od |-> FftOdd(in_frames, window)]

\* The frame of a call fft(in_frames, _, window) once its base-case test and,
\* past it, its split loop have run: where the call stands, and its arrays.
NewFrame(in_frames, window) ==
  IF window <= 1
    THEN [pc |-> "return", window |-> window, ev |-> << >>, od |-> << >>]
    ELSE [pc |-> "even", window |-> window,
          ev |-> FftEven(in_frames, window), od |-> FftOdd(in_frames, window)]

\* The generator state one sample reads and writes.
Gen(ph, inc) == [phase |-> ph, increasing |-> inc]

\* Each generator: the sample it stores in *output and the state it leaves.
sine_simple(g) ==
  LET p1 == g.phase + frequency
  IN  [out |-> amplitude * Ph(1) * SinQ(g.phase),
       gen |-> Gen(IF p1 >= Ph(1) THEN p1 - Ph(1) ELSE p1, g.increasing)]

tooth(g) ==
  LET p1 == g.phase + 2 * frequency
  IN  [out |-> IF g.phase > 0 /\ 2 * g.phase < Ph(1)
                 THEN amplitude * Ph(1) ELSE -(amplitude * Ph(1)),
       gen |-> Gen(IF p1 >= Ph(1) THEN p1 - Ph(2) ELSE p1, g.increasing)]

triangle(g) ==
  LET df   == 2 * frequency
      inc1 == IF ~g.increasing /\ g.phase - df < -Ph(1) THEN TRUE ELSE g.increasing
      inc2 == IF inc1 /\ g.phase + df > Ph(1) THEN FALSE ELSE inc1
  IN  [out |-> amplitude * g.phase,
       gen |-> Gen(IF inc2 THEN g.phase + df ELSE g.phase - df, inc2)]

saw(g) ==
  LET p1 == g.phase + 2 * frequency
  IN  [out |-> amplitude * g.phase,
       gen |-> Gen(IF p1 >= Ph(1) THEN -Ph(2) ELSE p1, g.increasing)]

\* The switch of data_callback's loop.
Generate(g) ==
  CASE instrument = "SINE" -> sine_simple(g)
    [] instrument = "SQUARE" -> tooth(g)
    [] instrument = "TRIANGLE" -> triangle(g)
    [] instrument = "SAW" -> saw(g)

\* The generation loop of data_callback, from sample i on: the device buffer
\* and the generator state after it.
RECURSIVE GenerateLoop(_, _, _, _)
GenerateLoop(out, g, i, frameCount) ==
  IF i >= frameCount THEN [output |-> out, gen |-> g]
  ELSE LET s == Generate(g)
       IN  GenerateLoop(Store(out, i, s.out), s.gen, i + 1, frameCount)

\* The loop of frames_as_frequencies, from i on.
RECURSIVE CopyLoop(_, _, _, _)
CopyLoop(in_frames, out_frequencies, i, n_frames) ==
  IF i >= n_frames THEN out_frequencies
  ELSE CopyLoop(in_frames, Store(out_frequencies, i, in_frames[i]), i + 1, n_frames)

frames_as_frequencies(in_frames, out_frequencies, n_frames) ==
  CopyLoop(in_frames, out_frequencies, 0, n_frames)

MIN(x, y) == IF x < y THEN x ELSE y

\* frameCount handed on as it is, without MIN.
CopyCountUnclamped(frameCount) == frameCount

\* The count data_callback hands to frames_as_frequencies.
CopyCount(frameCount) == MIN(frameCount, FRAME_COUNT_MAX)


\* --------------------------------------------------------- initial states

\* What the output buffer may hold before the first call.
PriorFill == {RZero, RConst(7)}

KernelIdle ==
  /\ size = 0 /\ op = "none" /\ kpc = "idle" /\ stack = << >>
  /\ written = {} /\ prior = << >> /\ calls = 0 /\ maxDepth = 0

\* The globals of minipiano.c as main leaves them at ma_device_start.
AppStart ==
  /\ instrument = "SINE"
  /\ amplitude = AMPLITUDE_INIT
  /\ phase = 0
  /\ increasing = FALSE
  /\ c_frequency = C_FREQUENCY_INIT
  /\ frequency = C_FREQUENCY_INIT
  /\ output = << >>
  /\ prevFrames = << >>
  /\ callbacks = 0
  /\ running = TRUE

ThreadsIdle ==
  /\ cbpc = "idle" /\ cbi = 0 /\ cbn = 0
  /\ rpc = "idle" /\ ri = 0 /\ evenTop = << >> /\ oddTop = << >>
  /\ renders = 0
  /\ complete = {frames}
  /\ modifiedDuringRead = FALSE
  /\ tornRead = FALSE

\* A transform run: buffers of some length, any input, the output buffer
\* holding what an earlier use left in it.
Init ==
  /\ size \in 0 .. MaxWindow
  /\ frames \in [Idx(size) -> Samples(size)]
  /\ \E v \in PriorFill : frequencies = [i \in Idx(size) |-> v]
  /\ op = "none" /\ kpc = "idle" /\ stack = << >>
  /\ written = {} /\ prior = frequencies /\ calls = 0 /\ maxDepth = 0
  /\ AppStart
  /\ ThreadsIdle

\* The program: float frames[FRAME_COUNT_MAX] = {0}, frequencies likewise.
InitApp ==
  /\ frames = [i \in Idx(FRAME_COUNT_MAX) |-> 0]
  /\ frequencies = [i \in Idx(FRAME_COUNT_MAX) |-> RZero]
  /\ KernelIdle
  /\ AppStart
  /\ ThreadsIdle

\* ------------------------------------------------- transform calls (Spec)

CanCall == kpc \in {"idle", "done"} /\ calls < MaxCalls

\* dft(frames, frequencies, size) is called and returns.
CallDft ==
  /\ CanCall
  /\ frequencies' = dft(frames, frequencies, size)
  /\ written' = DftWrites(size)
  /\ prior' = frequencies
  /\ op' = "dft"
  /\ kpc' = "done"
  /\ calls' = calls + 1
  /\ maxDepth' = 0
  /\ UNCHANGED <<frames, size, stack, avars, rvars>>

Top == stack[Len(stack)]

Pop == SubSeq(stack, 1, Len(stack) - 1)

Max(a, b) == IF a > b THEN a ELSE b

\* fft(frames, frequencies, size) is called: the outermost call is entered.
CallFft ==
  /\ CanCall
  /\ stack' = <<NewFrame(frames, size)>>
  /\ written' = {}
  /\ prior' = frequencies
  /\ op' = "fft"
  /\ kpc' = "fft"
  /\ calls' = calls + 1
  /\ maxDepth' = 0
  /\ UNCHANGED <<frames, frequencies, size, avars, rvars>>

\* fft(even, out_frequencies, window / 2) is entered.
FftRecurseEven ==
  /\ kpc = "fft"
  /\ Top.pc = "even"
  /\ stack' = Append([stack EXCEPT ![Len(stack)].pc = "odd"],
                     NewFrame(Top.ev, Top.window \div 2))
  /\ maxDepth' = Max(maxDepth, Len(stack))
  /\ UNCHANGED <<frames, frequencies, size, op, kpc, written, prior, calls,
                 avars, rvars>>

\* fft(odd, out_frequencies, window / 2) is entered.
FftRecurseOdd ==
  /\ kpc = "fft"
  /\ Top.pc = "odd"
  /\ stack' = Append([stack EXCEPT ![Len(stack)].pc = "combine"],
                     NewFrame(Top.od, Top.window \div 2))
  /\ maxDepth' = Max(maxDepth, Len(stack))
  /\ UNCHANGED <<frames, frequencies, size, op, kpc, written, prior, calls,
                 avars, rvars>>

\* The combine loop of the innermost call runs and the call returns.
FftCombineReturn ==
  /\ kpc = "fft"
  /\ Top.pc = "combine"
  /\ frequencies' = FftCombine(Top.ev, Top.od, frequencies, Top.window)
  /\ written' = written \cup FftCombineWrites(Top.window)
  /\ stack' = Pop
  /\ kpc' = IF Len(stack) = 1 THEN "done" ELSE "fft"
  /\ UNCHANGED <<frames, size, op, prior, calls, maxDepth, avars, rvars>>

\* The innermost call took the base case and returns.
FftBaseReturn ==
  /\ kpc = "fft"
  /\ Top.pc = "return"
  /\ stack' = Pop
  /\ kpc' = IF Len(stack) = 1 THEN "done" ELSE "fft"
  /\ UNCHANGED <<frames, frequencies, size, op, written, prior, calls, maxDepth,
                 avars, rvars>>

FftStep == FftRecurseEven \/ FftRecurseOdd \/ FftCombineReturn \/ FftBaseReturn

Next == CallDft \/ CallFft \/ FftStep

Spec == Init /\ [][Next]_vars

\* ------------------------------------------- minipiano.c: the key handler

\* The note keys a w s e d f t g y h u j k, as their half tones above c_frequency.
NoteKeys == 0 .. 12

Instruments == {"SINE", "SQUARE", "TRIANGLE", "SAW"}

\* The main loop handles keys while the program runs; a run is followed up to
\* its last data_callback.
CanKey == running /\ callbacks < MaxCallbacks /\ cbpc = "idle" /\ rpc = "idle"

\* 'q': goto cleanup, where ma_device_uninit stops the callbacks.
KeyQuit ==
  /\ CanKey
  /\ running' = FALSE
  /\ UNCHANGED <<frames, frequencies, kvars, rvars, instrument, amplitude, phase,
                 increasing, frequency, c_frequency, output, prevFrames, callbacks>>

\* 'z': c_frequency *= pow(2, 1 / 12.0); frequency = c_frequency.
KeyTransposeUp ==
  /\ CanKey
  /\ c_frequency' = FreqTimes(c_frequency, 1)
  /\ frequency' = c_frequency'
  /\ UNCHANGED <<frames, frequencies, kvars, rvars, instrument, amplitude, phase,
                 increasing, output, prevFrames, callbacks, running>>

\* 'x': c_frequency /= pow(2, 1 / 12.0); frequency = c_frequency.
KeyTransposeDown ==
  /\ CanKey
  /\ c_frequency' = FreqOver(c_frequency, 1)
  /\ frequency' = c_frequency'
  /\ UNCHANGED <<frames, frequencies, kvars, rvars, instrument, amplitude, phase,
                 increasing, output, prevFrames, callbacks, running>>

\* A note key: frequency = c_frequency * pow(2, k / 12.0).
KeyNote ==
  /\ CanKey
  /\ \E k \in NoteKeys : frequency' = FreqTimes(c_frequency, k)
  /\ UNCHANGED <<frames, frequencies, kvars, rvars, instrument, amplitude, phase,
                 increasing, c_frequency, output, prevFrames, callbacks, running>>

\* '1' '2' '3' '4': instrument = SINE, SQUARE, TRIANGLE, SAW.
KeyInstrument ==
  /\ CanKey
  /\ \E i \in Instruments : instrument' = i
  /\ UNCHANGED <<frames, frequencies, kvars, rvars, amplitude, phase, increasing,
                 frequency, c_frequency, output, prevFrames, callbacks, running>>

\* 'o': amplitude += 0.1.  (The model stops raising it at MaxAmplitude.)
KeyAmplitudeUp ==
  /\ CanKey
  /\ amplitude < MaxAmplitude
  /\ amplitude' = amplitude + 1
  /\ UNCHANGED <<frames, frequencies, kvars, rvars, instrument, phase, increasing,
                 frequency, c_frequency, output, prevFrames, callbacks, running>>

\* 'p': amplitude -= 0.1; if (amplitude < 0.0) amplitude = 0.0.
KeyAmplitudeDown ==
  /\ CanKey
  /\ amplitude' = IF amplitude - 1 < 0 THEN 0 ELSE amplitude - 1
  /\ UNCHANGED <<frames, frequencies, kvars, rvars, instrument, phase, increasing,
                 frequency, c_frequency, output, prevFrames, callbacks, running>>

KeyDown ==
  \/ KeyQuit \/ KeyTransposeUp \/ KeyTransposeDown \/ KeyNote
  \/ KeyInstrument \/ KeyAmplitudeUp \/ KeyAmplitudeDown

\* -------------------------------------------- minipiano.c: data_callback

\* The device buffer handed to data_callback: frameCount floats.
DeviceBuffer(frameCount) == [i \in Idx(frameCount) |-> 0]

\* data_callback(pDevice, pOutput, pInput, frameCount), from entry to return.
DataCallback ==
  /\ running /\ callbacks < MaxCallbacks
  /\ \E frameCount \in FrameCounts :
       LET r == GenerateLoop(DeviceBuffer(frameCount), Gen(phase, increasing),
                             0, frameCount)
       IN  /\ output' = r.output
           /\ phase' = r.gen.phase
           /\ increasing' = r.gen.increasing
           /\ frames' = frames_as_frequencies(r.output, frames, CopyCount(frameCount))
  /\ complete' = complete \cup {frames'}
  /\ prevFrames' = frames
  /\ callbacks' = callbacks + 1
  /\ UNCHANGED <<frequencies, kvars, instrument, amplitude, frequency, c_frequency,
                 running, cbpc, cbi, cbn, rpc, ri, evenTop, oddTop, renders,
                 modifiedDuringRead, tornRead>>

\* The keys and the callbacks of a run.
NextSynth == KeyDown \/ DataCallback

SpecSynth == InitApp /\ [][NextSynth]_vars

\* ------------------ the audio thread and the main thread, step by step

\* data_callback is entered and runs its generation loop.
CallbackGenerate ==
  /\ running /\ callbacks < MaxCallbacks /\ cbpc = "idle"
  /\ \E frameCount \in FrameCounts :
       LET r == GenerateLoop(DeviceBuffer(frameCount), Gen(phase, increasing),
                             0, frameCount)
       IN  /\ output' = r.output
           /\ phase' = r.gen.phase
           /\ increasing' = r.gen.increasing
           /\ cbn' = CopyCount(frameCount)
  /\ cbpc' = "copy"
  /\ cbi' = 0
  /\ prevFrames' = frames
  /\ callbacks' = callbacks + 1
  /\ UNCHANGED <<frames, frequencies, kvars, instrument, amplitude, frequency,
                 c_frequency, running, rpc, ri, evenTop, oddTop, renders, complete,
                 modifiedDuringRead, tornRead>>

\* The first and the last read of frames by the fft call of the main thread
\* are its split loop's first and last pass.
BetweenReads == rpc = "split" /\ 0 < ri /\ ri < FRAME_COUNT_MAX \div 2

\* One pass of the loop of frames_as_frequencies: frames[i] = output[i].
CallbackCopy ==
  /\ cbpc = "copy" /\ cbi < cbn
  /\ frames' = Store(frames, cbi, output[cbi])
  /\ cbi' = cbi + 1
  /\ modifiedDuringRead' =
       (modifiedDuringRead \/ (BetweenReads /\ frames[cbi] # output[cbi]))
  /\ UNCHANGED <<frequencies, kvars, avars, cbpc, cbn, rpc, ri, evenTop, oddTop,
                 renders, complete, tornRead>>

\* frames_as_frequencies and data_callback return.
CallbackReturn ==
  /\ cbpc = "copy" /\ cbi >= cbn
  /\ cbpc' = "idle"
  /\ complete' = complete \cup {frames}
  /\ UNCHANGED <<frames, frequencies, kvars, avars, cbi, cbn, rpc, ri, evenTop,
                 oddTop, renders, modifiedDuringRead, tornRead>>

\* The render branch of the main loop calls fft(frames, frequencies,
\* FRAME_COUNT_MAX).
RenderCall ==
  /\ running /\ renders < MaxRenders /\ rpc = "idle"
  /\ rpc' = "split"
  /\ ri' = 0
  /\ evenTop' = << >>
  /\ oddTop' = << >>
  /\ UNCHANGED <<frames, frequencies, kvars, avars, cbpc, cbi, cbn, renders,
                 complete, modifiedDuringRead, tornRead>>

\* One pass of the split loop of that call: it reads frames[i * 2] and
\* frames[i * 2 + 1].
RenderSplit ==
  /\ rpc = "split" /\ ri < FRAME_COUNT_MAX \div 2
  /\ evenTop' = Store(evenTop, ri, frames[ri * 2])
  /\ oddTop' = Store(oddTop, ri, frames[ri * 2 + 1])
  /\ ri' = ri + 1
  /\ UNCHANGED <<frames, frequencies, kvars, avars, cbpc, cbi, cbn, rpc, renders,
                 complete, modifiedDuringRead, tornRead>>

\* The samples a fft call has read: in_frames as its split loop saw it.
SamplesRead(ev, od) ==
  [i \in Idx(2 * Cardinality(DOMAIN ev)) |-> IF i % 2 = 0 THEN ev[i \div 2] ELSE od[i \div 2]]

\* The rest of that call, which works on even, odd and frequencies alone.
RenderReturn ==
  /\ rpc = "split" /\ ri >= FRAME_COUNT_MAX \div 2
  /\ frequencies' = FftAfterSplit(evenTop, oddTop, frequencies, FRAME_COUNT_MAX)
  /\ rpc' = "idle"
  /\ renders' = renders + 1
  /\ tornRead' = (tornRead \/ SamplesRead(evenTop, oddTop) \notin complete)
  /\ UNCHANGED <<frames, kvars, avars, cbpc, cbi, cbn, ri, evenTop, oddTop,
                 complete, modifiedDuringRead>>

NextThreads ==
  \/ CallbackGenerate \/ CallbackCopy \/ CallbackReturn
  \/ RenderCall \/ RenderSplit \/ RenderReturn

SpecThreads == InitApp /\ [][NextThreads]_vars

\* The audio thread alone: nothing but data_callback stores to frames.
NextAudio == CallbackGenerate \/ CallbackCopy \/ CallbackReturn

SpecAudio == InitApp /\ [][NextAudio]_vars

\* ------------------------------------------------ reference definitions

\* SUM over t in [from, len) of x[t] * exp(-2*pi*i*(a*t + b)/q).
RECURSIVE ExpSum(_, _, _, _, _, _)
ExpSum(x, from, len, a, b, q) ==
  IF from >= len THEN Cx(RZero, RZero)
  ELSE CAdd(CScale(x[from], CExp(a * from + b, q)),
            ExpSum(x, from + 1, len, a, b, q))

\* Bin k of the discrete Fourier transform of the len samples x.
Transform(x, k, len) == ExpSum(x, 0, len, k, 0, len)

\* exp(-2*pi*i*k/(2*len)) times bin k of the transform of x: the exponents add.
TwiddleTimesTransform(x, k, len) == ExpSum(x, 0, len, 2 * k, k, 2 * len)

\* The samples x[0 .. len) are all c.
Constant(x, len, c) == \A t \in Idx(len) : x[t] = c

Returned(o) == kpc = "done" /\ op = o

\* ------------------------------------------------------------ the claims

\* C1: for a power-of-two length >= 2, the buffer fft leaves equals, bin by
\* bin, the buffer dft leaves for the same input.
C1_FftEqualsDft ==
  (Returned("fft") /\ IsPow2(size) /\ size >= 2)
    => \A k \in Idx(size) : frequencies[k] = dft(frames, prior, size)[k]

C3_IdentityBoundary ==
  (Returned("fft") /\ size = 1) => frequencies[0] = RConst(frames[0])

\* C4: for a power-of-two length n >= 2 and an input that is c everywhere, dft
\* and fft both leave out[0] = c * n and every other bin 0.
C4_DcInput ==
  \A c \in Samples(size) :
    ((Returned("dft") \/ Returned("fft")) /\ IsPow2(size) /\ size >= 2
       /\ Constant(frames, size, c))
      => /\ frequencies[0] = RConst(c * size)
         /\ \A k \in 1 .. (size - 1) : frequencies[k] = RZero

\* C5: for a power-of-two window >= 1, a dft or fft call assigns every slot of
\* the output buffer, so what the buffer holds after the call is what the call
\* leaves in a zeroed buffer.
C5_FullyOverwritten ==
  ((Returned("dft") \/ Returned("fft")) /\ IsPow2(size)) =>
    /\ written = Idx(size)
    /\ frequencies = IF op = "dft"
                       THEN dft(frames, [i \in Idx(size) |-> RZero], size)
                       ELSE fft(frames, [i \in Idx(size) |-> RZero], size)

\* C7: the combine loop of a call with a power-of-two window >= 2 leaves
\* out[i] = E[i] + t * O[i] and out[i + window/2] = E[i] - t * O[i], E and O the
\* transforms of even and odd and t = exp(-2*pi*i*i/window).
C7_CombineUsesTransforms ==
  [][(FftCombineReturn /\ IsPow2(Top.window)) =>
       \A i \in Idx(Top.window \div 2) :
         LET h == Top.window \div 2
             E == Transform(Top.ev, i, h)
             tO == TwiddleTimesTransform(Top.od, i, h)
         IN  /\ frequencies'[i] = Narrow(CAdd(E, tO))
             /\ frequencies'[i + h] = Narrow(CSub(E, tO))]_vars

\* The steps a fft call of this window takes from entry to return.
RECURSIVE Cost(_)
Cost(w) == IF w <= 1 THEN 1 ELSE 3 + 2 * Cost(w \div 2)

\* The steps the frame f has left, the calls it has yet to make included.
FrameLeft(f) ==
  CASE f.pc = "return" -> 1
    [] f.pc = "even" -> 3 + 2 * Cost(f.window \div 2)
    [] f.pc = "odd" -> 2 + Cost(f.window \div 2)
    [] f.pc = "combine" -> 1

RECURSIVE StepsLeft(_)
StepsLeft(st) ==
  IF st = << >> THEN 0 ELSE FrameLeft(st[Len(st)]) + StepsLeft(SubSeq(st, 1, Len(st) - 1))

\* The innermost call stands at a place one of the steps of FftStep starts from.
FftCanStep == stack # << >> /\ Top.pc \in {"even", "odd", "combine", "return"}

\* C8: fft(in, out, window) terminates for every window >= 0: while it runs a
\* step is possible and each step leaves fewer steps to go; every nested call
\* is made with half the window (integer division); the nesting never exceeds
\* floor(log2(window)) and reaches it.
C8_FftTerminates ==
  /\ [](kpc = "fft" => (FftCanStep /\ StepsLeft(stack) > 0))
  /\ [][FftStep => StepsLeft(stack') < StepsLeft(stack)]_vars
  /\ [](\A k \in 2 .. Len(stack) : stack[k].window = stack[k - 1].window \div 2)
  /\ [](kpc = "fft" => Len(stack) - 1 <= Log2Floor(size))
  /\ [](Returned("fft") => (stack = << >> /\ maxDepth = Log2Floor(size)))

C8_Witness == Returned("fft") /\ ~IsPow2(size) /\ size >= 5 /\ maxDepth = 2

\* frameCount of the latest data_callback: the length of its device buffer.
FrameCountOf(out) == Cardinality(DOMAIN out)

\* C6: once data_callback has returned, frames[i] = output[i] for i below
\* n = MIN(frameCount, FRAME_COUNT_MAX), the slots from n on hold what they
\* held before (all of them when n = 0), no index outside frames has been
\* stored to at any point, and output holds the samples the generator made:
\* with the settings main starts with, the sine of the phases before phase.
C6_CopyIntoFrames ==
  /\ DOMAIN frames = Idx(FRAME_COUNT_MAX)
  /\ (cbpc = "idle" /\ callbacks >= 1) =>
       LET fc == FrameCountOf(output)
           cnt == IF fc < FRAME_COUNT_MAX THEN fc ELSE FRAME_COUNT_MAX
       IN  /\ DOMAIN output = Idx(fc)
           /\ \A i \in Idx(cnt) : frames[i] = output[i]
           /\ \A i \in Idx(FRAME_COUNT_MAX) \ Idx(cnt) : frames[i] = prevFrames[i]
           /\ cnt = 0 => frames = prevFrames
           /\ \A i \in Idx(fc) :
                output[i] = AMPLITUDE_INIT * Ph(1) * SinQ(phase + Ph(fc) - fc + i)

C6_Witness ==
  /\ cbpc = "idle" /\ callbacks = 2
  /\ FrameCountOf(output) \in 1 .. (FRAME_COUNT_MAX - 1)
  /\ frames[0] # prevFrames[0]
  /\ frames[FRAME_COUNT_MAX - 1] # 0

\* C9: frames is not changed between the first and the last read of a fft
\* call, and the samples a fft call reads are what completed data_callback
\* invocations left in frames, never part of a callback's samples beside older
\* ones.
C9_ConsistentSnapshot == ~modifiedDuringRead /\ ~tornRead

\* C10: amplitude is never negative, and every sample in output and in frames
\* lies in [-1.0, 1.0].
C10_SamplesInRange ==
  /\ amplitude >= 0
  /\ \A i \in DOMAIN output : Abs(output[i]) <= FullScale
  /\ \A i \in DOMAIN frames : Abs(frames[i]) <= FullScale

====
